---------------------------- MODULE Spec2Model ----------------------------
(***************************************************************************)
(* tvctl firmware (src/fw/src/main.cpp): an Arduino sketch that polls an   *)
(* IRremote receiver and prints the decoded command on the serial link.    *)
(*                                                                         *)
(* The sketch is modelled statement by statement: pc names the statement   *)
(* the single thread of control is about to execute.  The receiver object  *)
(* (IRrecv) and the serial port are the sketch's collaborators; their      *)
(* behaviour is modelled after the interface the sketch uses: reception is *)
(* driven by the receiver's own sampling, not by the sketch's thread, so a *)
(* signal may arrive at any position of the sketch, the pause included.    *)
(***************************************************************************)
EXTENDS Integers, Sequences, FiniteSets, TLC

VARIABLES
    pc,             \* the statement the sketch executes next
    Serial,         \* the serial port: baud rate (0: closed), number of begin() calls
    receiver,       \* the IRrecv object: pin, feedback, state, latched frame, enableIRIn() calls
    decodedIRData,  \* receiver.decodedIRData: the result of the last successful decode()
    output,         \* what was written to the serial link: one entry per println call
    remaining,      \* time-units the running delay() still has to wait
    arrived,        \* history: number of signals that reached the receiver
    reported,       \* history: the frames that were printed, in order
    lostIds,        \* history: the signals the receiver did not capture
    elapsed,        \* history: time-units since the last println (saturates at Quiescence)
    pauseArrivals,  \* history: signals that arrived in the pause window of this cycle
    cycle,          \* history: what the sketch did since the last ready poll
    lastStep,       \* history: the kind of the last step taken
    idlePolls,      \* history: consecutive polls that found nothing (saturates at MaxIdlePolls)
    readyPolls      \* history: number of polls that found a decode ready

vars == <<pc, Serial, receiver, decodedIRData, output, remaining, arrived,
          reported, lostIds, elapsed, pauseArrivals, cycle, lastStep, idlePolls, readyPolls>>

---------------------------------------------------------------------------
(* Bounds of the model *)

MaxSignals == 3

MaxIdlePolls == 3

(* Program constants *)

BaudRate == 9600

ReceivePin == 2

DelayMsShort == 250 - 1

DelayMs == 250

Quiescence == 250

UINT16_MAX == 65535

---------------------------------------------------------------------------
(* Decode results.  A frame carries the fields of IRData the library fills *)
(* in; the sketch reads command only.                                      *)

Frame(c, a, p, r) == [command |-> c, address |-> a, protocol |-> p, repeat |-> r]

NoFrame == Frame(0, 0, "UNKNOWN", FALSE)

(* The signals of the main specification: the same command under two      *)
(* protocols, addresses and repeat flags, and the sentinel 0 of a          *)
(* malformed decode.                                                       *)
Signals ==
    { Frame(34, 0, "NEC", FALSE),
      Frame(34, 7, "SONY", TRUE),
      Frame(0, 0, "UNKNOWN", FALSE) }

NoRaw == [data |-> NoFrame, id |-> 0, inPause |-> FALSE]

---------------------------------------------------------------------------
(* Serial.println(unsigned): the digits of n in base 10, most significant  *)
(* first, produced by repeated division, then CR LF.                       *)

DigitChar(d) == <<"0", "1", "2", "3", "4", "5", "6", "7", "8", "9">>[d + 1]

RECURSIVE printNumber(_)
printNumber(n) ==
    IF n < 10 THEN <<DigitChar(n)>>
    ELSE Append(printNumber(n \div 10), DigitChar(n % 10))

println(n) == printNumber(n) \o <<"\r", "\n">>

---------------------------------------------------------------------------
(* The receiver capability *)

(* receiver.decode(): TRUE iff a complete frame is latched. *)
decode == receiver.state = "stop"

(* receiver.resume(): discard the latched frame and listen again. *)
resume == [receiver EXCEPT !.state = IF @ = "off" THEN "off" ELSE "idle", !.raw = NoRaw]

(* delay(250) is waiting. *)
DelayInProgress == pc = "delaying"

(* The sketch is in the pause window: delay(250) is about to be called or  *)
(* is waiting.                                                             *)
InPauseWindow == pc \in {"delay", "delaying"}

(* A signal reaches the receiver.  An enabled, listening receiver latches  *)
(* it; a receiver that is not enabled, or still holds an unacknowledged    *)
(* frame, does not.  Nothing in setup() or loop() samples the pin: capture *)
(* is the work of the receiver that enableIRIn() started, so this action   *)
(* is enabled at every position of the sketch, inside delay() too.         *)
Arrive(s) ==
    /\ arrived < MaxSignals
    /\ arrived' = arrived + 1
    /\ IF receiver.state = "idle"
       THEN /\ receiver' = [receiver EXCEPT !.state = "stop",
                               !.raw = [data |-> s, id |-> arrived + 1,
                                        inPause |-> DelayInProgress]]
            /\ lostIds' = lostIds
       ELSE /\ receiver' = receiver
            /\ lostIds' = lostIds \cup {arrived + 1}
    /\ pauseArrivals' = IF InPauseWindow THEN pauseArrivals + 1 ELSE pauseArrivals
    /\ lastStep' = "arrive"
    /\ UNCHANGED <<pc, Serial, decodedIRData, output, remaining, reported, elapsed, cycle, idlePolls, readyPolls>>

(* One time-unit of the running delay() passes.  Only delay() consumes    *)
(* modelled time: the other statements are taken as instantaneous, which   *)
(* is the shortest gap between a report and the next poll a run can have.  *)
Tick ==
    /\ pc = "delaying"
    /\ remaining > 0
    /\ remaining' = remaining - 1
    /\ elapsed' = IF elapsed < Quiescence THEN elapsed + 1 ELSE elapsed
    /\ lastStep' = "tick"
    /\ UNCHANGED <<pc, Serial, receiver, decodedIRData, output, arrived, reported, lostIds,
                   pauseArrivals, cycle, idlePolls, readyPolls>>

---------------------------------------------------------------------------
(* The sketch *)

(* The statement that follows statement s: setup() runs once, then loop()  *)
(* is called again and again.                                              *)
AfterSwapped(s) ==
    CASE s = "begin"      -> "enableIRIn"
      [] s = "enableIRIn" -> "decode"
      [] s = "println"    -> "delay"
      [] s = "delay"      -> "resume"
      [] s = "resume"     -> "decode"

After(s) ==
    CASE s = "begin"      -> "enableIRIn"
      [] s = "enableIRIn" -> "decode"
      [] s = "println"    -> "resume"
      [] s = "resume"     -> "delay"
      [] s = "delay"      -> "decode"

(* The argument of println. *)
PrintedValueLowByte == decodedIRData.command % 256

PrintedValueAddress == decodedIRData.address

PrintedValue == decodedIRData.command

(* Serial.begin(9600) *)
SetupSerialBeginOmitted ==
    /\ pc = "begin"
    /\ pc' = After("begin")
    /\ lastStep' = "begin"
    /\ UNCHANGED <<Serial, receiver, decodedIRData, output, remaining, arrived, reported,
                   lostIds, elapsed, pauseArrivals, cycle, idlePolls, readyPolls>>

SetupSerialBegin ==
    /\ pc = "begin"
    /\ Serial' = [baud |-> BaudRate, begins |-> Serial.begins + 1]
    /\ pc' = After("begin")
    /\ lastStep' = "begin"
    /\ UNCHANGED <<receiver, decodedIRData, output, remaining, arrived, reported,
                   lostIds, elapsed, pauseArrivals, cycle, idlePolls, readyPolls>>

(* receiver.enableIRIn() *)
SetupEnableIRIn ==
    /\ pc = "enableIRIn"
    /\ receiver' = [receiver EXCEPT !.state = "idle", !.raw = NoRaw, !.enables = @ + 1]
    /\ pc' = After("enableIRIn")
    /\ lastStep' = "enableIRIn"
    /\ UNCHANGED <<Serial, decodedIRData, output, remaining, arrived, reported,
                   lostIds, elapsed, pauseArrivals, cycle, idlePolls, readyPolls>>

(* if (receiver.decode()) with a frame latched: the result is stored and   *)
(* the body is entered.                                                    *)
LoopDecodeReady ==
    /\ pc = "decode"
    /\ decode
    /\ decodedIRData' = receiver.raw.data
    /\ pc' = "println"
    /\ cycle' = << >>
    /\ idlePolls' = 0
    /\ readyPolls' = readyPolls + 1
    /\ lastStep' = "poll"
    /\ pauseArrivals' = 0
    /\ UNCHANGED <<Serial, receiver, output, remaining, arrived, reported, lostIds, elapsed>>

(* if (receiver.decode()) with nothing latched: loop() returns. *)
LoopDecodeIdlePausing ==
    /\ pc = "decode"
    /\ ~decode
    /\ pc' = "delay"
    /\ idlePolls' = IF idlePolls < MaxIdlePolls THEN idlePolls + 1 ELSE idlePolls
    /\ lastStep' = "poll"
    /\ UNCHANGED <<Serial, receiver, decodedIRData, output, remaining, arrived, reported,
                   lostIds, elapsed, pauseArrivals, cycle, readyPolls>>

LoopDecodeIdle ==
    /\ pc = "decode"
    /\ ~decode
    /\ pc' = "decode"
    /\ idlePolls' = IF idlePolls < MaxIdlePolls THEN idlePolls + 1 ELSE idlePolls
    /\ lastStep' = "poll"
    /\ UNCHANGED <<Serial, receiver, decodedIRData, output, remaining, arrived, reported,
                   lostIds, elapsed, pauseArrivals, cycle, readyPolls>>

(* Serial.println(receiver.decodedIRData.command) *)
LoopPrintlnFiltered ==
    /\ pc = "println"
    /\ IF decodedIRData.command = 0
       THEN UNCHANGED <<output, reported, elapsed, cycle>>
       ELSE /\ output' = Append(output, println(PrintedValue))
            /\ reported' = Append(reported, receiver.raw)
            /\ elapsed' = 0
            /\ cycle' = Append(cycle, "println")
    /\ pc' = After("println")
    /\ lastStep' = "println"
    /\ UNCHANGED <<Serial, receiver, decodedIRData, remaining, arrived, lostIds,
                   pauseArrivals, idlePolls, readyPolls>>

LoopPrintln ==
    /\ pc = "println"
    /\ output' = IF Serial.baud = 0 THEN output ELSE Append(output, println(PrintedValue))
    /\ reported' = Append(reported, receiver.raw)
    /\ elapsed' = 0
    /\ cycle' = Append(cycle, "println")
    /\ pc' = After("println")
    /\ lastStep' = "println"
    /\ UNCHANGED <<Serial, receiver, decodedIRData, remaining, arrived, lostIds,
                   pauseArrivals, idlePolls, readyPolls>>

(* receiver.resume() *)
LoopResumeOmitted ==
    /\ pc = "resume"
    /\ pc' = After("resume")
    /\ lastStep' = "resume"
    /\ UNCHANGED <<Serial, receiver, decodedIRData, output, remaining, arrived, reported,
                   lostIds, elapsed, pauseArrivals, cycle, idlePolls, readyPolls>>

LoopResume ==
    /\ pc = "resume"
    /\ receiver' = resume
    /\ cycle' = Append(cycle, "resume")
    /\ pc' = After("resume")
    /\ lastStep' = "resume"
    /\ UNCHANGED <<Serial, decodedIRData, output, remaining, arrived, reported,
                   lostIds, elapsed, pauseArrivals, idlePolls, readyPolls>>

(* delay(250): the call starts the wait ... *)
LoopDelayCall ==
    /\ pc = "delay"
    /\ remaining' = DelayMs
    /\ pc' = "delaying"
    /\ lastStep' = "delay"
    /\ UNCHANGED <<Serial, receiver, decodedIRData, output, arrived, reported, lostIds,
                   elapsed, pauseArrivals, cycle, idlePolls, readyPolls>>

(* ... and returns when the time is up. *)
LoopDelayReturnWhenQuiet ==
    /\ pc = "delaying"
    /\ remaining = 0
    /\ ~decode
    /\ cycle' = Append(cycle, "delay")
    /\ pc' = After("delay")
    /\ lastStep' = "delayed"
    /\ UNCHANGED <<Serial, receiver, decodedIRData, output, remaining, arrived, reported,
                   lostIds, elapsed, pauseArrivals, idlePolls, readyPolls>>

LoopDelayReturn ==
    /\ pc = "delaying"
    /\ remaining = 0
    /\ cycle' = Append(cycle, "delay")
    /\ pc' = After("delay")
    /\ lastStep' = "delayed"
    /\ UNCHANGED <<Serial, receiver, decodedIRData, output, remaining, arrived, reported,
                   lostIds, elapsed, pauseArrivals, idlePolls, readyPolls>>

---------------------------------------------------------------------------
(* The state after construction: IRrecv receiver(2, ENABLE_LED_FEEDBACK),  *)
(* nothing enabled, nothing printed.                                       *)
Init ==
    /\ pc = "begin"
    /\ Serial = [baud |-> 0, begins |-> 0]
    /\ receiver = [pin |-> ReceivePin, ledFeedback |-> TRUE, state |-> "off",
                   raw |-> NoRaw, enables |-> 0]
    /\ decodedIRData = NoFrame
    /\ output = << >>
    /\ remaining = 0
    /\ arrived = 0
    /\ reported = << >>
    /\ lostIds = {}
    /\ elapsed = Quiescence
    /\ pauseArrivals = 0
    /\ cycle = << >>
    /\ lastStep = "init"
    /\ idlePolls = 0
    /\ readyPolls = 0

Step ==
    \/ SetupSerialBegin
    \/ SetupEnableIRIn
    \/ LoopDecodeReady
    \/ LoopDecodeIdle
    \/ LoopPrintln
    \/ LoopResume
    \/ LoopDelayCall
    \/ LoopDelayReturn

Signal == \E s \in Signals : Arrive(s)

Next == Step \/ Signal \/ Tick

Spec == Init /\ [][Next]_vars

(* The thread of control never stops and time passes. *)
FairSpec == Spec /\ WF_vars(Step) /\ WF_vars(Tick)

(* One report in isolation: setup is done and a frame with any 16-bit      *)
(* command is latched; the sketch polls, prints, re-arms and starts its    *)
(* pause.                                                                  *)
PrintInit ==
    /\ pc = "decode"
    /\ Serial = [baud |-> BaudRate, begins |-> 1]
    /\ \E v \in 0..UINT16_MAX :
         receiver = [pin |-> ReceivePin, ledFeedback |-> TRUE, state |-> "stop",
                     raw |-> [data |-> Frame(v, 0, "NEC", FALSE), id |-> 1,
                              inPause |-> FALSE],
                     enables |-> 1]
    /\ decodedIRData = NoFrame
    /\ output = << >>
    /\ remaining = 0
    /\ arrived = 1
    /\ reported = << >>
    /\ lostIds = {}
    /\ elapsed = Quiescence
    /\ pauseArrivals = 0
    /\ cycle = << >>
    /\ lastStep = "arrive"
    /\ idlePolls = 0
    /\ readyPolls = 0

PrintNext == LoopDecodeReady \/ LoopPrintln \/ LoopResume \/ LoopDelayCall

SpecPrint == PrintInit /\ [][PrintNext]_vars

---------------------------------------------------------------------------
(* Properties *)

ReportedIds == {reported[i].id : i \in 1..Len(reported)}

FullCycle == <<"println", "resume", "delay">>

(* IDLE: waiting for a decode.  REPORTED: a decode was taken and is being  *)
(* printed, acknowledged and paused after.                                 *)
Phase ==
    CASE pc = "decode" -> "IDLE"
      [] pc \in {"println", "resume", "delay", "delaying"} -> "REPORTED"
      [] OTHER -> "SETUP"

(* C1: the same decode is never reported twice.  Every printed frame is a  *)
(* distinct signal, after the re-arm the decode-ready query is true only   *)
(* for a signal that has not been reported yet, and there are never more   *)
(* output lines than signals that arrived.                                 *)
C1_NeverReportedTwice ==
    /\ Len(output) <= arrived
    /\ Len(output) = Len(reported)
    /\ \A i, j \in 1..Len(reported) : i # j => reported[i].id # reported[j].id
    /\ (pc \in {"delay", "delaying", "decode", "println"} /\ decode)
          => receiver.raw.id \notin ReportedIds

C1_Witness ==
    /\ pc = "decode"
    /\ lastStep = "poll"
    /\ ~decode
    /\ Len(output) = 2
    /\ arrived = 2

(* C3: post-decode quiescence.  A decode-ready query or an output line     *)
(* happens only when at least 250 time-units have passed since the last    *)
(* report, whatever arrived meanwhile.                                     *)
C3_Quiescence ==
    [][((pc = "decode" /\ lastStep' = "poll") \/ output' # output) => elapsed >= Quiescence]_vars

C3_Witness ==
    /\ pc = "println"
    /\ Len(output) >= 1
    /\ lastStep = "poll"
    /\ receiver.raw.inPause
    /\ elapsed >= Quiescence

(* C4 as stated: no signal that arrived while delay(250) was waiting is    *)
(* ever reported.                                                          *)
C4_PauseSignalsLost ==
    \A i \in 1..Len(reported) : ~reported[i].inPause

(* C4 amended: the receiver is re-armed before the pause, so the first     *)
(* signal of the pause window is latched and stays latched through the     *)
(* pause; a latched signal is never dropped unreported, it is taken by the *)
(* first poll after the pause and printed; only signals that find the      *)
(* receiver not listening are lost.                                        *)
C4_PauseSignalLatched ==
    /\ [](/\ (InPauseWindow /\ pauseArrivals > 0)
                => (decode /\ receiver.raw.id \notin ReportedIds)
          /\ \A id \in 1..arrived :
                \/ id \in lostIds
                \/ decode /\ receiver.raw.id = id
                \/ id \in ReportedIds
          /\ (pc = "decode" /\ lastStep = "poll") => ~decode
          /\ pc = "println" => (decode /\ decodedIRData = receiver.raw.data)
          /\ (InPauseWindow /\ pauseArrivals > 0)
                => Cardinality(lostIds) >= pauseArrivals - 1
          /\ Len(output) = Len(reported)
          /\ \A i \in 1..Len(reported) : reported[i].id \notin lostIds)
    /\ (decode /\ receiver.raw.inPause)
          ~> (pc = "resume" /\ reported # << >> /\ reported[Len(reported)].inPause)

C4_Witness ==
    \E i \in 1..Len(reported) : reported[i].inPause /\ output[i] = println(reported[i].data.command)

(* C5: a poll that finds nothing leaves everything as it was: no output,   *)
(* no resume, no pause, the receiver untouched, and the sketch is back at  *)
(* the poll.                                                               *)
C5_IdlePollNoEffect ==
    [][(pc = "decode" /\ ~decode /\ lastStep' = "poll")
          => /\ pc' = "decode"
             /\ UNCHANGED <<Serial, receiver, decodedIRData, output, remaining,
                            reported, elapsed, cycle, readyPolls>>]_vars

C5_Witness ==
    /\ idlePolls = MaxIdlePolls
    /\ lastStep = "poll"
    /\ output = << >>
    /\ receiver.state = "idle"

(* C6: after a ready poll the sketch prints once, re-arms once and pauses  *)
(* once, in that order, and polls again only when all three are done.      *)
C6_ReportRearmPause ==
    /\ pc = "println" => cycle = << >>
    /\ pc = "resume" => cycle = <<"println">>
    /\ pc \in {"delay", "delaying"} => cycle = <<"println", "resume">>
    /\ pc = "decode" => cycle = (IF readyPolls = 0 THEN << >> ELSE FullCycle)
    /\ (pc = "decode" /\ readyPolls > 0) => (elapsed = Quiescence /\ remaining = 0)
    /\ lastStep = "poll" => pc \in {"decode", "println"}

C6_Witness ==
    /\ pc = "decode"
    /\ lastStep = "delayed"
    /\ cycle = FullCycle
    /\ readyPolls = 2

(* C7: every ready poll prints one line, the sentinel 0 included: between  *)
(* loop() invocations the number of lines is the number of ready polls.    *)
C7_UnconditionalPrint ==
    /\ pc # "println" => Len(output) = readyPolls
    /\ pc = "println" => Len(output) = readyPolls - 1
    /\ Len(output) = Len(reported)
    /\ \A i \in 1..Len(reported) :
          reported[i].data.command = 0 => output[i] = <<"0", "\r", "\n">>

C7_Witness ==
    /\ pc = "resume"
    /\ decodedIRData.command = 0
    /\ decodedIRData.protocol = "UNKNOWN"
    /\ output[Len(output)] = <<"0", "\r", "\n">>

(* C9: initialization happens once, in order, before any poll: past        *)
(* setup() the serial link is open at 9600 and the receiver on pin 2 is    *)
(* enabled, each by exactly one call, and nothing is printed on a closed   *)
(* link.                                                                   *)
C9_InitOnce ==
    /\ Serial.begins <= 1
    /\ receiver.enables <= 1
    /\ receiver.enables = 1 => Serial.begins = 1
    /\ Phase # "SETUP" =>
          /\ Serial = [baud |-> 9600, begins |-> 1]
          /\ receiver.enables = 1
          /\ receiver.pin = 2
          /\ receiver.state # "off"
    /\ lastStep = "poll" => Phase # "SETUP"
    /\ output # << >> => Serial.baud = 9600

C9_Witness ==
    /\ lastStep = "poll"
    /\ readyPolls = 2
    /\ Serial.begins = 1
    /\ receiver.enables = 1

(* C10: the output depends on the command field only: two reported        *)
(* decodes with the same command produce the same line, whatever their     *)
(* protocol, address and repeat flag.                                      *)
C10_CommandOnly ==
    /\ Len(output) = Len(reported)
    /\ \A i, j \in 1..Len(reported) :
          reported[i].data.command = reported[j].data.command => output[i] = output[j]

C10_Witness ==
    \E i, j \in 1..Len(reported) :
        /\ reported[i].data.command = reported[j].data.command
        /\ reported[i].data.protocol # reported[j].data.protocol
        /\ reported[i].data.address # reported[j].data.address
        /\ ~reported[i].data.repeat
        /\ reported[j].data.repeat
        /\ output[i] = output[j]

(* The value of a decimal digit character, and of a digit string. *)
DecimalDigits ==
    "0" :> 0 @@ "1" :> 1 @@ "2" :> 2 @@ "3" :> 3 @@ "4" :> 4 @@
    "5" :> 5 @@ "6" :> 6 @@ "7" :> 7 @@ "8" :> 8 @@ "9" :> 9

RECURSIVE DecimalValue(_)
DecimalValue(ds) ==
    IF ds = << >> THEN 0
    ELSE 10 * DecimalValue(SubSeq(ds, 1, Len(ds) - 1)) + DecimalDigits[ds[Len(ds)]]

(* line is the decimal representation of v followed by the terminator:    *)
(* digits only, no leading zero (but "0" itself), worth v, then CR LF.     *)
IsDecimalLineOf(line, v) ==
    /\ Len(line) >= 3
    /\ line[Len(line) - 1] = "\r"
    /\ line[Len(line)] = "\n"
    /\ LET ds == SubSeq(line, 1, Len(line) - 2)
       IN /\ \A k \in 1..Len(ds) : ds[k] \in DOMAIN DecimalDigits
          /\ Len(ds) > 1 => ds[1] # "0"
          /\ DecimalValue(ds) = v

(* C2: exact pass-through.  For every command value V of 0..65535 the line *)
(* written for a decode with that command is the decimal representation of *)
(* V followed by the line terminator.                                      *)
C2_ExactPassThrough ==
    /\ Len(output) = Len(reported)
    /\ pc \in {"resume", "delay", "delaying"} => Len(output) = 1
    /\ \A i \in 1..Len(output) : IsDecimalLineOf(output[i], reported[i].data.command)

C2_Witness ==
    /\ Len(output) = 1
    /\ reported[1].data.command = UINT16_MAX
    /\ output[1] = <<"6", "5", "5", "3", "5", "\r", "\n">>

(* C8: the poll cycle is a two-state machine without a terminal state.     *)
(* IDLE is left only for REPORTED and only when a decode is ready;         *)
(* REPORTED is left only for IDLE and only when the pause is over; setup   *)
(* is never re-entered; REPORTED always leads back to IDLE; and the thread *)
(* or the clock can always take a step.                                    *)
C8_TwoStateMachine ==
    /\ [][/\ (Phase = "IDLE" /\ Phase' # "IDLE") => (decode /\ Phase' = "REPORTED")
          /\ (Phase = "REPORTED" /\ Phase' # "REPORTED")
                => (Phase' = "IDLE" /\ pc = "delaying" /\ remaining = 0)
          /\ Phase # "SETUP" => Phase' # "SETUP"]_vars
    /\ (Phase = "REPORTED") ~> (Phase = "IDLE")
    /\ [](ENABLED Step \/ ENABLED Tick)

C8_Witness ==
    /\ Phase = "IDLE"
    /\ lastStep = "delayed"
    /\ decodedIRData.command = 0
    /\ decode
    /\ receiver.raw.inPause

=============================================================================
